---- MODULE Spec2Model ----
(***************************************************************************)
(* paperetl, CORD-19 ETL: the per-row transformation (Execute.process,     *)
(* Section.parse) and the orchestrator (Execute.run) that fans rows out to *)
(* a multiprocessing pool with pool.imap, consumes the candidates, applies *)
(* the id/hash/tag selection and drives the database sink.                 *)
(* The functions of a row (getHash, getDate, Section.parse,                *)
(* Section.filtered, process) are also called on their own (CallSpec), and *)
(* the Elastic sink is modelled with its buffer and bulk loads             *)
(* (ElasticSpec).                                                          *)
(*                                                                         *)
(* Representation of Python values:                                        *)
(*   - an optional value is a tuple: <<>> is None, <<v>> is v;             *)
(*   - a "; "-delimited csv field is the sequence of its parts, the empty  *)
(*     string being <<"">> (what "".split("; ") gives);                    *)
(*   - a text is the sequence of its sentences (what sent_tokenize splits  *)
(*     it into), with "[" and "]" as tokens of their own;                  *)
(*   - a date is the number yyyymmdd.                                      *)
(***************************************************************************)
EXTENDS Integers, Sequences, FiniteSets, TLC

----------------------------------------------------------------------------
(* Bounds of the model *)

\* rows the metadata.csv stream yields at most
MaxRows == 3

\* processes of the pool (os.cpu_count() of the machine)
NumWorkers == 2

\* rows per pool task (the chunksize argument of pool.imap, scaled down)
ChunkSize == 2

----------------------------------------------------------------------------
(* Python values *)

None == <<>>

Some(v) == <<v>>

\* Python truthiness of an optional string: None and "" are falsy
Truthy(opt) == opt # None /\ opt[1] # ""

RECURSIVE Concat(_)
\* the concatenation of a sequence of sequences
Concat(ss) == IF ss = <<>> THEN <<>> ELSE Head(ss) \o Concat(Tail(ss))

RECURSIVE SeqToSet(_)
SeqToSet(s) == IF s = <<>> THEN {} ELSE {Head(s)} \cup SeqToSet(Tail(s))

\* the outcome of a call that may raise: its value, or the exception
Returned(v) == [ok |-> TRUE, value |-> v]

Raised == [ok |-> FALSE]

----------------------------------------------------------------------------
(* Execute.getHash *)

\* hashlib.sha1(title.encode("utf-8")).hexdigest(): distinct titles, distinct digests
sha1(title) ==
    CASE title = <<>> -> "da39a3ee"
      [] title = <<"t1">> -> "sha1-t1"
      [] title = <<"t2">> -> "sha1-t2"
      [] OTHER -> "sha1-other"

\* a csv field is falsy when it is the empty string
FieldEmpty(field) == field = <<"">>

\* the last of the delimited hashes is taken
getHash_Last(row) ==
    LET sha == IF ~FieldEmpty(row.sha) THEN Some(row.sha[Len(row.sha)]) ELSE None
    IN  IF ~Truthy(sha) THEN sha1(row.title) ELSE sha[1]

getHash(row) ==
    LET sha == IF ~FieldEmpty(row.sha) THEN Some(row.sha[1]) ELSE None
    IN  IF ~Truthy(sha) THEN sha1(row.title) ELSE sha[1]

----------------------------------------------------------------------------
(* Execute.getDate *)

Digits == {"0", "1", "2", "3", "4", "5", "6", "7", "8", "9"}

DigitValue(c) ==
    CASE c = "0" -> 0 [] c = "1" -> 1 [] c = "2" -> 2 [] c = "3" -> 3 [] c = "4" -> 4
      [] c = "5" -> 5 [] c = "6" -> 6 [] c = "7" -> 7 [] c = "8" -> 8 [] c = "9" -> 9

\* str.isdigit(): non-empty and every character a digit
isdigit(s) == Len(s) > 0 /\ \A i \in 1..Len(s) : s[i] \in Digits

Number(s, i, j) ==
    LET RECURSIVE Val(_, _)
        Val(k, acc) == IF k > j THEN acc ELSE Val(k + 1, acc * 10 + DigitValue(s[k]))
    IN  Val(i, 0)

DaysIn(y, m) ==
    IF m = 2 THEN (IF y % 4 = 0 /\ (y % 100 # 0 \/ y % 400 = 0) THEN 29 ELSE 28)
    ELSE IF m \in {4, 6, 9, 11} THEN 30 ELSE 31

\* dateutil's parser.parse on the strings of the model: a date written
\* yyyy-mm-dd with a year of 1..9999 (datetime.MINYEAR is 1), a month and a
\* day in range; any other string raises
dateutil_parse(s) ==
    IF /\ Len(s) = 10
       /\ s[5] = "-" /\ s[8] = "-"
       /\ \A i \in {1, 2, 3, 4, 6, 7, 9, 10} : s[i] \in Digits
    THEN LET y == Number(s, 1, 4)
             m == Number(s, 6, 7)
             d == Number(s, 9, 10)
         IN  IF y >= 1 /\ m \in 1..12 /\ d \in 1..DaysIn(y, m)
             THEN Returned(y * 10000 + m * 100 + d)
             ELSE Raised
    ELSE Raised

\* a year alone is not completed to January 1
getDate_NoDefault(row) ==
    LET date == row.publish_time
    IN  IF date # <<>>
        THEN LET parsed == dateutil_parse(date)
             IN  IF parsed.ok THEN Some(parsed.value) ELSE None
        ELSE None

getDate(row) ==
    LET date == row.publish_time
    IN  IF date # <<>>
        THEN LET full == IF isdigit(date) /\ Len(date) = 4
                         THEN date \o <<"-", "0", "1", "-", "0", "1">>
                         ELSE date
                 parsed == dateutil_parse(full)
             IN  IF parsed.ok THEN Some(parsed.value) ELSE None
        ELSE None

----------------------------------------------------------------------------
(* Section.parse, Section.files, Section.filtered *)

\* the companion files of the input directory: a path that is not listed
\* cannot be opened or holds no JSON; a listed file holds the keys it has
\* (None: the key is missing from the JSON)
File(body, refs, bibs) == [body_text |-> body, ref_entries |-> refs, bib_entries |-> bibs]

Directory(path) ==
    CASE path = "f1.json" ->
           Some(File(Some(<<[section |-> "Intro", text |-> <<"body one">>]>>),
                     Some(<<>>),
                     Some(<<"cite-a", "cite-b", "cite-a">>)))
      [] path = "f2.json" ->
           Some(File(Some(<<[section |-> " ", text |-> <<"body two">>]>>),
                     Some(<<[name |-> "TABREF0", html |-> Some(<<"table row">>)]>>),
                     Some(<<"cite-b">>)))
      [] path = "f3.json" ->
           Some(File(Some(<<[section |-> "Methods", text |-> <<"body three">>]>>),
                     Some(<<>>),
                     None))
      [] path = "f4.json" ->
           Some(File(None,
                     Some(<<>>),
                     Some(<<"cite-c">>)))
      [] path = "f5.json" ->
           Some(File(Some(<<[section |-> "Results", text |-> <<"body five">>]>>),
                     None,
                     Some(<<"cite-c">>)))
      [] OTHER -> None

\* str.upper() and str.strip() on the section headings of the model
upper(s) ==
    CASE s = "Intro" -> "INTRO"
      [] s = "Methods" -> "METHODS"
      [] s = "Results" -> "RESULTS"
      [] s = "title" -> "TITLE"
      [] s = "abstract" -> "ABSTRACT"
      [] OTHER -> s

strip(s) == IF s \in {"", " "} THEN "" ELSE s

\* re.sub(r"^\[", "", text) then re.sub(r"\]$", "", text)
StripBrackets(text) ==
    LET a == IF text # <<>> /\ Head(text) = "[" THEN Tail(text) ELSE text
    IN  IF a # <<>> /\ a[Len(a)] = "]" THEN SubSeq(a, 1, Len(a) - 1) ELSE a

\* sent_tokenize(Text.transform(text)): the sentences of a text, each a section
Named(name, text) == [i \in 1..Len(text) |-> <<name, text[i]>>]

\* one of the title and abstract fields of a row
FieldSections(row, name) ==
    LET text == IF name = "title" THEN row.title ELSE row.abstract
    IN  IF text # <<>>
        THEN Named(Some(upper(name)), StripBrackets(text))
        ELSE <<>>

files(row) ==
    (IF ~FieldEmpty(row.pdf_json_files) THEN row.pdf_json_files ELSE <<>>)
      \o (IF ~FieldEmpty(row.pmc_json_files) THEN row.pmc_json_files ELSE <<>>)

BodySections(body) ==
    Concat([i \in 1..Len(body) |->
              Named(IF strip(body[i].section) # "" THEN Some(upper(body[i].section)) ELSE None,
                    body[i].text)])

\* the html of a table entry is the sequence of the rows Table.parse finds in it
RefSections(refs) ==
    Concat([i \in 1..Len(refs) |->
              IF refs[i].html # None /\ refs[i].html[1] # <<>>
              THEN Named(Some(refs[i].name), refs[i].html[1])
              ELSE <<>>])

\* the try block of one companion file: sections and citations are extended
\* in place, so what was added before an exception stays
ParseFile(acc, path) ==
    LET data == Directory(path)
    IN  IF data = None THEN acc
        ELSE IF data[1].body_text = None THEN acc
        ELSE LET s1 == acc.sections \o BodySections(data[1].body_text[1])
             IN  IF data[1].ref_entries = None THEN [acc EXCEPT !.sections = s1]
                 ELSE LET s2 == s1 \o RefSections(data[1].ref_entries[1])
                      IN  IF data[1].bib_entries = None THEN [acc EXCEPT !.sections = s2]
                          ELSE [sections |-> s2,
                                citations |-> acc.citations \o data[1].bib_entries[1]]

Boilerplate == {"COVID-19 resource centre", "permission to make all its COVID",
                "WHO COVID database", "COVID-19 public health emergency response"}

\* any([x in text for x in boilerplate]): the fragments a text of the model contains
Fragments(text) ==
    CASE text = "see the COVID-19 resource centre" -> {"COVID-19 resource centre"}
      [] OTHER -> {}

\* the keys are the (name, text) pairs: a text repeated under another name stays
filtered_ByPair(sections, citations) ==
    LET RECURSIVE Unique(_, _, _)
        Unique(rest, unique, keys) ==
            IF rest = <<>> THEN unique
            ELSE LET text == Head(rest)[2]
                 IN  IF Head(rest) \notin keys /\ Fragments(text) \cap Boilerplate = {}
                     THEN Unique(Tail(rest), Append(unique, Head(rest)), keys \cup {Head(rest)})
                     ELSE Unique(Tail(rest), unique, keys)
    IN  [sections |-> Unique(sections, <<>>, {}), citations |-> SeqToSet(citations)]

filtered(sections, citations) ==
    LET RECURSIVE Unique(_, _, _)
        Unique(rest, unique, keys) ==
            IF rest = <<>> THEN unique
            ELSE LET text == Head(rest)[2]
                 IN  IF text \notin keys /\ Fragments(text) \cap Boilerplate = {}
                     THEN Unique(Tail(rest), Append(unique, Head(rest)), keys \cup {text})
                     ELSE Unique(Tail(rest), unique, keys)
    IN  [sections |-> Unique(sections, <<>>, {}), citations |-> SeqToSet(citations)]

\* the try block is around the loop over the files: the first file that
\* fails ends the loop
parse_FirstFiles(row) ==
    LET RECURSIVE Files(_, _)
        Files(acc, paths) ==
            IF paths = <<>> \/ Directory(Head(paths)) = None THEN acc
            ELSE Files(ParseFile(acc, Head(paths)), Tail(paths))
        start == [sections |-> FieldSections(row, "title") \o FieldSections(row, "abstract"),
                  citations |-> <<>>]
        all == Files(start, files(row))
    IN  filtered(all.sections, all.citations)

parse(row) ==
    LET RECURSIVE Files(_, _)
        Files(acc, paths) ==
            IF paths = <<>> THEN acc ELSE Files(ParseFile(acc, Head(paths)), Tail(paths))
        start == [sections |-> FieldSections(row, "title") \o FieldSections(row, "abstract"),
                  citations |-> <<>>]
        all == Files(start, files(row))
    IN  filtered(all.sections, all.citations)

----------------------------------------------------------------------------
(* Execute.getUrl, Execute.getTags, Execute.process *)

\* "https://api." in url
IsApiLink(url) == url \in {"https://api.elsevier.com/1"}

\* a url is the pair of a prefix and the rest, so that "https://doi.org/" + doi
\* is a value of the same kind as a url of the row
getUrl(row) ==
    LET urls == IF ~FieldEmpty(row.url)
                THEN SelectSeq(row.url, LAMBDA u : ~IsApiLink(u))
                ELSE <<>>
    IN  IF urls # <<>> THEN <<"", urls[1]>> ELSE <<"https://doi.org/", row.doi>>

\* re.findall(regex, text.lower()) finds a match: the texts of the model
\* that hold one of the keyword patterns
KeywordTexts == {"a covid-19 study", "on sars-cov-2", "covid text the tokenizer rejects"}

\* no break, and a section without a match clears the tag: the last section decides
getTags_Last(sections) ==
    IF sections # <<>> /\ sections[Len(sections)][2] \in KeywordTexts
    THEN Some("COVID-19")
    ELSE None

getTags(sections) ==
    LET RECURSIVE Scan(_)
        Scan(rest) ==
            IF rest = <<>> THEN None
            ELSE IF Head(rest)[2] \in KeywordTexts THEN Some("COVID-19")
            ELSE Scan(Tail(rest))
    IN  Scan(sections)

\* datetime(2019, 7, 1)
Cutoff == 20190701

\* Grammar.parse: the annotation service raises on a text it cannot tokenize
Unparsable == {"covid text the tokenizer rejects"}

grammar_parse(texts) ==
    IF \E i \in 1..Len(texts) : texts[i] \in Unparsable
    THEN Raised
    ELSE Returned([i \in 1..Len(texts) |-> <<"tokens", texts[i]>>])

\* Study.parse: design, size, sample, method and a label per section (None
\* where the study model gives none)
Study_parse(sections) ==
    [design |-> Some(1), size |-> Some("size"), sample |-> Some("sample"),
     method |-> Some("method"),
     labels |-> [i \in 1..Len(sections) |->
                   IF sections[i][1] = Some("ABSTRACT") THEN Some("FINDING") ELSE None]]

\* Grammar.label
grammar_label(tokens) == Some("NONE")

\* Article(metadata, sections, None)
Article(metadata, sections) == [metadata |-> metadata, sections |-> sections]

\* Article.uid(): the first field of the metadata
uid(article) == article.metadata[1]

\* Article.tags(): the seventh field of the metadata
tags(article) == article.metadata[7]

Metadata(row, date, tag, design, size, sample, method) ==
    <<row.cord_uid, row.source_x, date, row.journal, row.authors, row.title, tag,
      design, size, sample, method, getUrl(row)>>

\* no row is annotated and the sections are put in reverse order
process_Reversed(row) ==
    LET sections == parse(row).sections
        n == Len(sections)
    IN  Returned(
          [sha |-> getHash(row),
           article |-> Article(Metadata(row, getDate(row), None, None, None, None, None),
                               [i \in 1..n |->
                                  <<sections[n + 1 - i][1], sections[n + 1 - i][2], None>>]),
           citations |-> None])

process(row) ==
    LET sha == getHash(row)
        date == getDate(row)
        parsed == parse(row)
        sections == parsed.sections
        tag == IF date = None \/ date[1] >= Cutoff THEN getTags(sections) ELSE None
    IN  IF tag # None
        THEN LET parsing == grammar_parse([i \in 1..Len(sections) |-> sections[i][2]])
             IN  IF ~parsing.ok THEN Raised
                 ELSE LET tokenslist == parsing.value
                          joined == [i \in 1..Len(sections) |->
                                       <<sections[i][1], sections[i][2], tokenslist[i]>>]
                          study == Study_parse(joined)
                          labelled == [i \in 1..Len(joined) |->
                                         <<joined[i][1], joined[i][2],
                                           IF study.labels[i] # None THEN study.labels[i]
                                           ELSE grammar_label(joined[i][3])>>]
                      IN  Returned(
                            [sha |-> sha,
                             article |-> Article(Metadata(row, date, tag, study.design,
                                                          study.size, study.sample,
                                                          study.method), labelled),
                             citations |-> Some(parsed.citations)])
        ELSE Returned(
               [sha |-> sha,
                article |-> Article(Metadata(row, date, tag, None, None, None, None),
                                    [i \in 1..Len(sections) |->
                                       <<sections[i][1], sections[i][2], None>>]),
                citations |-> None])

----------------------------------------------------------------------------
(* The inputs of a run *)

Uids == {"u1", "u2"}

\* the sha column: empty, or two hashes of which the first is the row's
ShaFields == {<<"">>, <<"h1", "h2">>}

\* publish_time and abstract of a row that gets the tag, and of one that does not
Contents ==
    {[publish_time |-> <<"2", "0", "2", "0">>, abstract |-> <<"a covid-19 study">>],
     [publish_time |-> <<"2", "0", "2", "0">>, abstract |-> <<"plain text">>]}

\* publish_time and abstract of a row the annotation service raises on
BadContent == [publish_time |-> <<>>, abstract |-> <<"covid text the tokenizer rejects">>]

\* the companion files a record names: f3.json has no bibliography table
FilesOf(u) == IF u = "u1" THEN <<"f1.json">> ELSE <<"f2.json", "f3.json">>

Row(u, s, c) ==
    [cord_uid |-> u, sha |-> s, title |-> <<"t1">>, abstract |-> c.abstract,
     publish_time |-> c.publish_time, source_x |-> "PMC", journal |-> "journal",
     authors |-> "authors", pdf_json_files |-> FilesOf(u), pmc_json_files |-> <<"">>,
     url |-> <<"https://api.elsevier.com/1">>, doi |-> "10.1/x"]

\* a row with no title, no abstract and no companion file: Section.parse
\* finds no section in it
Bare ==
    [Row("u2", <<"h1", "h2">>, [publish_time |-> <<>>, abstract |-> <<>>])
       EXCEPT !.title = <<>>, !.pdf_json_files = <<"">>]

\* the rows of the model: every uid, sha column and content, one row on
\* which Execute.process raises (its keys are never looked at) and one
\* without sections
Rows == {Row(u, s, c) : u \in Uids, s \in ShaFields, c \in Contents}
          \cup {Row("u1", <<"">>, BadContent), Bare}

\* entry-dates.csv: every hash of the rows, or without the title hash
EntryDate(h) == IF h = "h1" THEN "2020-03-27" ELSE "2020-04-03"

EntryTables == {[h \in D |-> EntryDate(h)] : D \in {{"h1", "sha1-t1"}, {"h1"}}}

----------------------------------------------------------------------------
(* Execute.run *)

VARIABLES
    full,       \* the full argument of run
    dates,      \* Execute.entryDates: sha -> entry date
    stream,     \* Execute.stream: "open", "eof" (exhausted), "error" (it raised),
                \* "closed" (dropped with the pool)
    rows,       \* the rows the stream has yielded into tasks
    taken,      \* tasks the pool's workers have taken off the task queue
    running,    \* the tasks the workers of the pool are running
    results,    \* task -> its result, once a worker has finished it
    finished,   \* history: the tasks in the order the workers finished them
    consumed,   \* rows the for loop of run has consumed
    ids,        \* uids of the saved articles
    hashes,     \* hashes of the saved articles
    citations,  \* Counter: title -> mentions
    db,         \* the calls made on the database, in order
    accepted,   \* history: the numbers of the rows handed to db.save
    pc,         \* where run is: "streaming", "completed", "done", "failed"
    raised,     \* the exception that ended run, "" when none did
    input,      \* a call of one function on its own: the function and its arguments
    output,     \* what that call returned, None before it is made
    service,    \* the calls that call made on the annotation service, in order
    elastic,    \* an Elastic object: its rows and its buffer
    connection, \* the calls made on the Elasticsearch connection, in order
    saved       \* history: the articles passed to Elastic.save

vars == <<full, dates, stream, rows, taken, running, results, finished, consumed, ids,
          hashes, citations, db, accepted, pc, raised, input, output, service,
          elastic, connection, saved>>

\* the variables of the pool and of the stream
pool == <<stream, rows, taken, running, results, finished>>

\* the variables of the loop of run
loop == <<consumed, ids, hashes, citations, db, accepted, pc, raised>>

\* the variables of the single function calls and of the Elastic object,
\* which a run of the orchestrator model leaves alone
apart == <<input, output, service, elastic, connection, saved>>

Init ==
    /\ full \in BOOLEAN
    /\ dates \in EntryTables
    /\ stream = "open"
    /\ rows = <<>>
    /\ taken = 0
    /\ running = {}
    /\ results = <<>>
    /\ finished = <<>>
    /\ consumed = 0
    /\ ids = {}
    /\ hashes = {}
    /\ citations = [t \in {} |-> 0]
    /\ db = <<>>
    /\ accepted = <<>>
    /\ pc = "streaming"
    /\ raised = ""
    /\ input = None
    /\ output = None
    /\ service = <<>>
    /\ elastic = None
    /\ connection = <<>>
    /\ saved = <<>>

(* Execute.stream and the pool's task generation *)

\* _get_tasks fills a chunk with the next ChunkSize rows of the stream
\* (itertools.islice) and puts it on the task queue
PutTask ==
    /\ pc = "streaming"
    /\ stream = "open"
    /\ Len(rows) + ChunkSize <= MaxRows
    /\ \E chunk \in [1..ChunkSize -> Rows] : rows' = rows \o chunk
    /\ UNCHANGED <<apart, full, dates, stream, taken, running, results, finished>>
    /\ UNCHANGED loop

\* the stream ends inside a chunk: the rows left are the last task
LastTask ==
    /\ pc = "streaming"
    /\ stream = "open"
    /\ \E n \in 1..(ChunkSize - 1) :
         /\ Len(rows) + n <= MaxRows
         /\ \E chunk \in [1..n -> Rows] : rows' = rows \o chunk
    /\ stream' = "eof"
    /\ UNCHANGED <<apart, full, dates, taken, running, results, finished>>
    /\ UNCHANGED loop

\* metadata.csv is exhausted at the end of a chunk: no task is left
EndOfFile ==
    /\ pc = "streaming"
    /\ stream = "open"
    /\ stream' = "eof"
    /\ UNCHANGED <<apart, full, dates, rows, taken, running, results, finished>>
    /\ UNCHANGED loop

\* open() or the csv reader raises: the rows of the chunk being filled are
\* lost, and a task that re-raises the exception takes the chunk's place
StreamError ==
    /\ pc = "streaming"
    /\ stream = "open"
    /\ stream' = "error"
    /\ UNCHANGED <<apart, full, dates, rows, taken, running, results, finished>>
    /\ UNCHANGED loop

\* pool.imap(func, iterable, chunksize): the tasks on the queue so far
FullChunks == Len(rows) \div ChunkSize

NumTasks ==
    CASE stream = "open" -> FullChunks
      [] stream = "eof" -> FullChunks + (IF Len(rows) % ChunkSize > 0 THEN 1 ELSE 0)
      [] stream = "error" -> FullChunks + 1

Chunk(i) ==
    SubSeq(rows, (i - 1) * ChunkSize + 1,
           IF i * ChunkSize < Len(rows) THEN i * ChunkSize ELSE Len(rows))


\* Execute.process on each row of the input
Processed ==
    LET Each(Op(_), S) ==
            LET RECURSIVE All(_)
                All(T) ==
                    IF T = {} THEN <<>>
                    ELSE LET row == CHOOSE r \in T : TRUE
                         IN  (row :> Op(row)) @@ All(T \ {row})
            IN  All(S)
    IN  Each(process, Rows)

\* mapstar in a worker: process on each row of the chunk; one exception is
\* the result of the whole task
MapStar(chunk) ==
    IF \E k \in 1..Len(chunk) : ~Processed[chunk[k]].ok
    THEN Raised
    ELSE Returned([k \in 1..Len(chunk) |-> Processed[chunk[k]].value])

\* the task that stands for the exception of the stream
IsStreamError(i) == stream = "error" /\ i = FullChunks + 1

TaskResult(i) == IF IsStreamError(i) THEN Raised ELSE MapStar(Chunk(i))

\* an idle worker takes the next task off the queue
Take ==
    /\ pc = "streaming"
    /\ Cardinality(running) < NumWorkers
    /\ taken < NumTasks
    /\ taken' = taken + 1
    /\ running' = running \cup {taken + 1}
    /\ UNCHANGED <<apart, full, dates, stream, rows, results, finished>>
    /\ UNCHANGED loop

\* the worker that runs task i finishes it and puts the result on the
\* result queue
Finish(i) ==
    /\ pc = "streaming"
    /\ i \in running
    /\ results' = (i :> TaskResult(i)) @@ results
    /\ finished' = Append(finished, i)
    /\ running' = running \ {i}
    /\ UNCHANGED <<apart, full, dates, stream, rows, taken>>
    /\ UNCHANGED loop

\* the with block of the pool is left, by the end of the loop or by an
\* exception: Pool.__exit__ terminates the workers and drops the tasks, the
\* results and the stream
Terminate ==
    /\ stream' = "closed"
    /\ taken' = 0
    /\ running' = {}
    /\ results' = <<>>
    /\ finished' = <<>>
    /\ UNCHANGED rows

(* The for loop of run over pool.imap *)

\* the task whose results the loop is in, and the place in it
NextTask == (consumed \div ChunkSize) + 1

NextPlace == (consumed % ChunkSize) + 1

\* imap_unordered: whichever task has a result
Ready_Unordered(i) == i \in DOMAIN results /\ i > consumed \div ChunkSize

\* imap hands results over in the order of the tasks: the loop waits for
\* the result of NextTask
Ready(i) == i \in DOMAIN results /\ i = NextTask

\* the candidate of row n: what Execute.process returned for it
Candidate(n) == Processed[rows[n]].value

\* the counter is replaced by the titles of the last document
update_Replace(counter, cite) ==
    IF cite = None THEN counter ELSE [t \in cite[1] |-> 1]

\* Counter.update(iterable): update(None) changes nothing
update(counter, cite) ==
    IF cite = None THEN counter
    ELSE [t \in DOMAIN counter \cup cite[1] |->
            (IF t \in DOMAIN counter THEN counter[t] ELSE 0)
              + (IF t \in cite[1] THEN 1 ELSE 0)]

\* only the uid is looked up
Selected_UidOnly(item) ==
    /\ uid(item.article) \notin ids
    /\ (full \/ Truthy(tags(item.article)))

\* untagged rows are loaded whatever full says
Selected_AnyTags(item) ==
    /\ uid(item.article) \notin ids
    /\ item.sha \notin hashes

\* a candidate is passed over only when both of its keys are known
Selected_Either(item) ==
    /\ (uid(item.article) \notin ids \/ item.sha \notin hashes)
    /\ (full \/ Truthy(tags(item.article)))

\* the condition of line 279
Selected(item) ==
    /\ uid(item.article) \notin ids
    /\ item.sha \notin hashes
    /\ (full \/ Truthy(tags(item.article)))

\* dates.get(sha): None for a hash the table does not have
Entry_Get(sha) == Returned(IF sha \in DOMAIN dates THEN dates[sha] ELSE "None")

\* dates[sha]: KeyError for a hash the table does not have
Entry(sha) == IF sha \in DOMAIN dates THEN Returned(dates[sha]) ELSE Raised

\* the citations are counted before the condition is looked at
Skip_Counted(item) ==
    /\ consumed' = consumed + 1
    /\ citations' = update(citations, item.citations)
    /\ UNCHANGED <<ids, hashes, db, accepted, pc, raised>>
    /\ UNCHANGED pool

\* the keys of a rejected candidate are remembered too
Skip_KeysAdded(item) ==
    /\ consumed' = consumed + 1
    /\ ids' = ids \cup {uid(item.article)}
    /\ hashes' = hashes \cup {item.sha}
    /\ UNCHANGED <<citations, db, accepted, pc, raised>>
    /\ UNCHANGED pool

\* a candidate the condition rejects: the loop goes on to the next one
Skip(item) ==
    /\ consumed' = consumed + 1
    /\ UNCHANGED <<ids, hashes, citations, db, accepted, pc, raised>>
    /\ UNCHANGED pool

\* a candidate the condition selects: dates[sha] raises KeyError; or the
\* candidate is counted and saved, unless db.save raises
Accept(item) ==
    LET entry == Entry(item.sha)
    IN  IF ~entry.ok
        THEN /\ pc' = "failed"
             /\ raised' = "KeyError"
             /\ Terminate
             /\ UNCHANGED <<consumed, ids, hashes, citations, db, accepted>>
        ELSE LET article == [item.article EXCEPT !.metadata = Append(@, entry.value)]
             IN  /\ citations' = update(citations, item.citations)
                 /\ db' = Append(db, <<"save", article>>)
                 /\ accepted' = Append(accepted, consumed + 1)
                 /\ \/ /\ ids' = ids \cup {uid(article)}
                       /\ hashes' = hashes \cup {item.sha}
                       /\ consumed' = consumed + 1
                       /\ UNCHANGED <<pc, raised>>
                       /\ UNCHANGED pool
                    \/ /\ pc' = "failed"
                       /\ raised' = "SinkError"
                       /\ Terminate
                       /\ UNCHANGED <<consumed, ids, hashes>>

\* one pass of the loop body
Consume ==
    /\ pc = "streaming"
    /\ \E i \in DOMAIN results :
         /\ Ready(i)
         /\ results[i].ok
         /\ NextPlace <= Len(results[i].value)
         /\ LET item == results[i].value[NextPlace]
            IN  IF Selected(item) THEN Accept(item) ELSE Skip(item)
    /\ UNCHANGED <<apart, full, dates>>

\* the result of the next task is an exception: next() raises it in run
Reraise ==
    /\ pc = "streaming"
    /\ \E i \in DOMAIN results :
         /\ Ready(i)
         /\ ~results[i].ok
         /\ raised' = IF IsStreamError(i) THEN "StreamError" ELSE "ProcessError"
    /\ pc' = "failed"
    /\ Terminate
    /\ UNCHANGED <<apart, full, dates, consumed, ids, hashes, citations, db, accepted>>

\* KeyboardInterrupt while the loop runs
Interrupt ==
    /\ pc = "streaming"
    /\ pc' = "failed"
    /\ raised' = "KeyboardInterrupt"
    /\ Terminate
    /\ UNCHANGED <<apart, full, dates, consumed, ids, hashes, citations, db, accepted>>

\* the loop has ended: every task of the exhausted stream is consumed
LoopDone == pc = "streaming" /\ stream = "eof" /\ consumed = Len(rows)

\* db.complete is called within the loop, after each row
Complete_InLoop ==
    /\ pc = "streaming"
    /\ consumed > 0
    /\ db' = Append(db, <<"complete", citations>>)
    /\ pc' = IF LoopDone THEN "completed" ELSE pc
    /\ UNCHANGED <<apart, full, dates, consumed, ids, hashes, citations, accepted, raised>>
    /\ UNCHANGED pool

\* db.complete is called in a finally clause, also when the loop raised
Complete_Finally ==
    /\ LoopDone \/ pc = "failed"
    /\ db' = Append(db, <<"complete", citations>>)
    /\ pc' = "completed"
    /\ Terminate
    /\ UNCHANGED <<apart, full, dates, consumed, ids, hashes, citations, accepted, raised>>

\* the with block is left and db.complete gets the counter as Citation records
Complete ==
    /\ LoopDone
    /\ db' = Append(db, <<"complete", citations>>)
    /\ pc' = "completed"
    /\ Terminate
    /\ UNCHANGED <<apart, full, dates, consumed, ids, hashes, citations, accepted, raised>>

Close ==
    /\ pc = "completed"
    /\ db' = Append(db, <<"close">>)
    /\ pc' = "done"
    /\ UNCHANGED <<apart, full, dates, consumed, ids, hashes, citations, accepted, raised>>
    /\ UNCHANGED pool

Next ==
    \/ PutTask
    \/ LastTask
    \/ EndOfFile
    \/ StreamError
    \/ Take
    \/ \E i \in running : Finish(i)
    \/ Consume
    \/ Reraise
    \/ Interrupt
    \/ Complete
    \/ Close

Spec == Init /\ [][Next]_vars

----------------------------------------------------------------------------
(* Properties of a run *)

\* the places of the calls of one kind in db
Calls(kind) == {i \in 1..Len(db) : db[i][1] = kind}

\* the step hands a document to db.save
IsSave == Len(db') = Len(db) + 1 /\ db'[Len(db')][1] = "save"

\* the rows the loop has looked at and not handed to db.save
Rejected == {n \in 1..consumed : \A k \in 1..Len(accepted) : accepted[k] # n}

\* the accepted rows before row n
Before(n) == {m \in 1..(n - 1) : \E k \in 1..Len(accepted) : accepted[k] = m}

\* C1: a candidate is handed to db.save only if its uid is not in ids and its
\* hash is not in hashes at that moment; no two saved documents of a run
\* share a uid, and no two share a hash.
C1_SavedOnlyIfUnseen ==
    /\ [][IsSave => /\ uid(Candidate(consumed + 1).article) \notin ids
                    /\ Candidate(consumed + 1).sha \notin hashes
                    /\ db'[Len(db')][2].metadata[1] = uid(Candidate(consumed + 1).article)]_vars
    /\ [](\A k, l \in 1..Len(accepted) :
            k # l => /\ uid(db[k][2]) # uid(db[l][2])
                     /\ Candidate(accepted[k]).sha # Candidate(accepted[l]).sha)

\* a tagged candidate with a new uid was rejected for its hash alone, in a
\* run that saved two documents
C1_Witness ==
    /\ \E n \in Rejected : \E m \in Before(n) :
         /\ Candidate(n).sha = Candidate(m).sha
         /\ \A j \in Before(n) : uid(Candidate(n).article) # uid(Candidate(j).article)
         /\ Truthy(tags(Candidate(n).article))
    /\ Len(accepted) = 2

\* C2: with full = FALSE every document handed to db.save has a non-empty
\* tags value.
C2_TaggedOnly ==
    ~full => \A i \in Calls("save") : Truthy(tags(db[i][2]))

\* under the tagged-only policy a document was saved and an untagged
\* candidate with a new uid and a new hash was passed over
C2_Witness ==
    /\ ~full
    /\ Calls("save") # {}
    /\ \E n \in Rejected :
         /\ ~Truthy(tags(Candidate(n).article))
         /\ uid(Candidate(n).article) \notin ids
         /\ Candidate(n).sha \notin hashes

\* the titles the companion files of a row cite: the citations Section.parse returns
Cited ==
    LET Each(Op(_), S) ==
            LET RECURSIVE All(_)
                All(T) ==
                    IF T = {} THEN <<>>
                    ELSE LET row == CHOOSE r \in T : TRUE
                         IN  (row :> Op(row).citations) @@ All(T \ {row})
            IN  All(S)
    IN  Each(parse, Rows)

\* the accepted documents whose companion files cite the title
CitedBy(t) == {k \in 1..Len(accepted) : t \in Cited[rows[accepted[k]]]}

\* a counter that counts no title more often than accepted documents cite it
OnlyAccepted(counter) ==
    \A t \in DOMAIN counter : counter[t] <= Cardinality(CitedBy(t))

\* C3: the citation counter holds only titles of accepted documents: a
\* rejected candidate changes no count, and the counts passed to db.complete
\* include no rejected document's citations.
C3_OnlyAcceptedCounted ==
    /\ OnlyAccepted(citations)
    /\ \A i \in Calls("complete") : OnlyAccepted(db[i][2])

\* a rejected candidate came with citations, and the counter was flushed
C3_Witness ==
    /\ \E n \in Rejected :
         /\ Candidate(n).citations # None
         /\ Candidate(n).citations[1] # {}
    /\ DOMAIN citations # {}
    /\ Calls("complete") # {}

\* the run of the loop over the rows one after the other, with no pool: the
\* documents saved and the counter
Sequential(rs) ==
    LET RECURSIVE Run(_, _)
        Run(rest, st) ==
            IF rest = <<>> THEN st
            ELSE LET out == Processed[Head(rest)]
                 IN  IF /\ out.ok
                        /\ out.value.article.metadata[1] \notin st.ids
                        /\ out.value.sha \notin st.hashes
                        /\ (full \/ out.value.article.metadata[7] = <<"COVID-19">>)
                        /\ out.value.sha \in DOMAIN dates
                     THEN Run(Tail(rest),
                              [ids |-> st.ids \cup {out.value.article.metadata[1]},
                               hashes |-> st.hashes \cup {out.value.sha},
                               saved |-> Append(st.saved,
                                                [out.value.article EXCEPT
                                                   !.metadata = Append(@, dates[out.value.sha])]),
                               counter |-> update(st.counter, out.value.citations)])
                     ELSE Run(Tail(rest), st)
    IN  Run(rs, [ids |-> {}, hashes |-> {}, saved |-> <<>>, counter |-> [t \in {} |-> 0]])

\* the rows the loop has decided: those consumed, and the one db.save raised on
Decided == SubSeq(rows, 1, IF raised = "SinkError" THEN consumed + 1 ELSE consumed)

\* C4: the loop consumes the results in the order the rows were submitted,
\* whatever order the workers finish in: under every interleaving the saved
\* documents and the citation counts are those of the sequential run over
\* the rows decided so far.
C4_SubmissionOrder ==
    LET ref == Sequential(Decided)
    IN  /\ Cardinality(Calls("save")) = Len(ref.saved)
        /\ \A k \in 1..Len(ref.saved) : k <= Len(db) /\ db[k] = <<"save", ref.saved[k]>>
        /\ citations = ref.counter

\* the second task finished before the first, and the loop went through
\* both: it saved two documents and passed one over
C4_Witness ==
    /\ finished = <<2, 1>>
    /\ consumed = 3
    /\ Len(accepted) = 2
    /\ rows[1] # rows[3]

\* C5: in a run that ends normally the calls on the database are the saves,
\* one per accepted document, then db.complete once, then db.close once; no
\* db.save follows db.complete and no call follows db.close.
C5_CallOrder ==
    /\ \A i, j \in 1..Len(db) :
         i < j => /\ db[i][1] # "close"
                  /\ db[i][1] = "complete" => db[j][1] = "close"
    /\ pc = "done" =>
         /\ Len(db) = Cardinality(ids) + 2
         /\ Cardinality(hashes) = Cardinality(ids)
         /\ \A i \in 1..Cardinality(ids) : db[i][1] = "save" /\ uid(db[i][2]) \in ids
         /\ \A i, j \in 1..Cardinality(ids) : i # j => uid(db[i][2]) # uid(db[j][2])
         /\ db[Len(db) - 1][1] = "complete"
         /\ db[Len(db)][1] = "close"

\* a run ended normally after two saves
C5_Witness == pc = "done" /\ Len(accepted) = 2 /\ Len(db) = 4

\* C6: a row whose processing raises in a worker is skipped and the run goes
\* on to db.complete and db.close: no run ends with the exception of a row.
C6_BadRowNeverAborts == raised # "ProcessError"

\* the next candidate passes the condition of line 279 and its hash is not
\* in the entry-date table
NextMissing ==
    /\ pc = "streaming"
    /\ NextTask \in DOMAIN results
    /\ results[NextTask].ok
    /\ NextPlace <= Len(results[NextTask].value)
    /\ LET item == results[NextTask].value[NextPlace]
       IN  /\ item.article.metadata[1] \notin ids
           /\ item.sha \notin hashes
           /\ (full \/ item.article.metadata[7] = <<"COVID-19">>)
           /\ item.sha \notin DOMAIN dates

\* C7: a candidate that passes the checks and whose hash is not in the
\* entry-date table aborts the run: it is not saved, its keys are not added,
\* its citations are not counted and no later row is saved; every saved
\* document has the entry date of its hash appended to its metadata.
C7_NoSaveWithoutEntry ==
    /\ [](\A k \in 1..Len(accepted) :
            /\ Candidate(accepted[k]).sha \in DOMAIN dates
            /\ db[k][2].metadata =
                 Append(Candidate(accepted[k]).article.metadata,
                        dates[Candidate(accepted[k]).sha]))
    /\ [][NextMissing => UNCHANGED <<consumed, ids, hashes, citations, db, accepted>>]_vars
    /\ [][raised = "KeyError" => UNCHANGED <<consumed, ids, hashes, citations, db, accepted>>]_vars
    /\ [](raised = "KeyError" => pc = "failed")

\* the run saved a document, then raised KeyError on the next row, with a
\* row left behind it
C7_Witness ==
    /\ raised = "KeyError"
    /\ Len(accepted) = 1
    /\ consumed = 1
    /\ Len(rows) = 3

\* C8: a run that aborts on an error of the sink, of the row stream or of
\* the entry-date lookup has called db.close.
C8_CloseOnAbort ==
    raised \in {"SinkError", "StreamError", "KeyError"} => Calls("close") # {}

\* C9: db.complete is called once, with the whole counter, by a run that
\* ends normally, and never by a run that fails or is interrupted while it
\* streams.
C9_CompleteOnlyAtEnd ==
    /\ raised # "" => Calls("complete") = {}
    /\ Cardinality(Calls("complete")) <= 1
    /\ pc \in {"completed", "done"} <=> Calls("complete") # {}
    /\ \A i \in Calls("complete") :
         /\ consumed = Len(rows)
         /\ db[i][2] = citations
         /\ db[i][2] = Sequential(rows).counter

\* a run was interrupted with rows left and citations counted
C9_Witness ==
    /\ raised = "KeyboardInterrupt"
    /\ DOMAIN citations # {}
    /\ consumed < Len(rows)

\* the mentions of a title in a counter
Mentions(counter, t) == IF t \in DOMAIN counter THEN counter[t] ELSE 0

\* the titles the companion files of the rows cite
Titles == UNION {Cited[rows[n]] : n \in 1..Len(rows)} \cup DOMAIN citations

\* the accepted documents with a tag whose companion files cite the title
CitedByTagged(t) == {k \in CitedBy(t) : Truthy(tags(db[k][2]))}

\* C10 as claimed: after the run the mentions of a title are the accepted
\* documents, tagged or not, whose citation titles contain it.
C10_AllAcceptedCounted ==
    pc = "done" => \A t \in Titles : Mentions(citations, t) = Cardinality(CitedBy(t))

\* C10, amended: the mentions of a title are the accepted documents with a
\* tag whose citation titles contain it; an accepted document without a tag
\* (full load) adds nothing. The counter passed to db.complete is that one.
C10_TaggedAcceptedCounted ==
    /\ \A t \in Titles : Mentions(citations, t) = Cardinality(CitedByTagged(t))
    /\ pc = "done" => \A i \in Calls("complete") : db[i][2] = citations

\* a full load ended after saving a tagged document, whose citations are
\* counted, and an untagged one whose companion files cite titles
C10_Witness ==
    /\ pc = "done"
    /\ full
    /\ DOMAIN citations # {}
    /\ \E k \in 1..Len(accepted) :
         /\ ~Truthy(tags(db[k][2]))
         /\ Cited[rows[accepted[k]]] # {}

----------------------------------------------------------------------------
(* The selection of the candidates *)

\* the rows handed to db.save
AcceptedRows == {accepted[k] : k \in 1..Len(accepted)}

\* row n is to be rejected: its uid or its hash is that of a document
\* accepted before it, or the policy is tagged-only and it has no tag
ToReject(n) ==
    \/ \E m \in Before(n) : uid(Candidate(m).article) = uid(Candidate(n).article)
    \/ \E m \in Before(n) : Candidate(m).sha = Candidate(n).sha
    \/ (~full /\ tags(Candidate(n).article) = None)

\* C11: a consumed candidate is rejected exactly when its uid is already
\* accepted, or its hash is, or the policy is tagged-only and it has no tag;
\* every other candidate whose hash has an entry date is saved exactly once,
\* with or without sections. Under the tagged-only policy a tagged and an
\* untagged row with distinct keys give one accepted document.
C11_RejectedExactlyWhen ==
    /\ \A n \in 1..Len(Decided) : (n \notin AcceptedRows) <=> ToReject(n)
    /\ \A n \in AcceptedRows :
         /\ Cardinality({k \in 1..Len(accepted) : accepted[k] = n}) = 1
         /\ Cardinality({i \in Calls("save") :
                           uid(db[i][2]) = uid(Candidate(n).article)}) = 1
         /\ Candidate(n).sha \in DOMAIN dates
    /\ (raised = "KeyError") =>
         (~ToReject(consumed + 1) /\ Candidate(consumed + 1).sha \notin DOMAIN dates)
    /\ (/\ ~full /\ consumed = 2 /\ raised = ""
        /\ Truthy(tags(Candidate(1).article)) /\ tags(Candidate(2).article) = None
        /\ uid(Candidate(1).article) # uid(Candidate(2).article)
        /\ Candidate(1).sha # Candidate(2).sha)
         => Len(accepted) = 1

\* a full load saved the document without sections after a tagged one, and
\* passed over a candidate
C11_Witness ==
    /\ full
    /\ Len(accepted) = 2
    /\ Candidate(accepted[2]).article.sections = <<>>
    /\ Rejected # {}

----------------------------------------------------------------------------
(* The functions of a row, each called on its own *)

\* companion files a column of a row names at most
MaxFiles == 2

\* sections Section.filtered is given at most
MaxSections == 3

\* no run of the orchestrator is under way
NoRun ==
    /\ full = FALSE
    /\ dates = <<>>
    /\ stream = "closed"
    /\ rows = <<>>
    /\ taken = 0
    /\ running = {}
    /\ results = <<>>
    /\ finished = <<>>
    /\ consumed = 0
    /\ ids = {}
    /\ hashes = {}
    /\ citations = <<>>
    /\ db = <<>>
    /\ accepted = <<>>
    /\ pc = "done"
    /\ raised = ""

\* the variables of a run
run == <<full, dates, pool, loop>>

\* a row of metadata.csv with the given columns
Fields(u, sha, title, abstract, time, pdf, pmc) ==
    [Row(u, sha, [publish_time |-> time, abstract |-> abstract])
       EXCEPT !.title = title, !.pdf_json_files = pdf, !.pmc_json_files = pmc]

\* the sha column: empty, one hash, two hashes, and an empty first part
ShaColumns == {<<"">>, <<"h1">>, <<"h1", "h2">>, <<"", "h2">>}

TitleColumns == {<<>>, <<"t1">>, <<"t2">>}

\* the characters of the years of the model
YearDigits == {"0", "1", "2", "9"}

\* publish_time: every string of four of the digits, and strings that are
\* no year: empty, three and five digits, full dates in and out of range,
\* a letter among the digits, free text
TimeColumns ==
    [1..4 -> YearDigits]
      \cup {<<>>,
            <<"2", "0", "2">>,
            <<"2", "0", "2", "0", "1">>,
            <<"2", "0", "x", "0">>,
            <<"2", "0", "2", "0", "-", "0", "3", "-", "1", "5">>,
            <<"2", "0", "1", "9", "-", "0", "6", "-", "3", "0">>,
            <<"2", "0", "1", "9", "-", "0", "7", "-", "0", "1">>,
            <<"2", "0", "2", "0", "-", "0", "2", "-", "3", "0">>,
            <<"2", "0", "2", "0", "-", "1", "3", "-", "0", "1">>,
            <<"0", "0", "0", "0", "-", "0", "1", "-", "0", "1">>,
            <<"n", "/", "a">>}

\* the paths a row names: five files of the directory and one that is not there
Paths == {"f1.json", "f2.json", "f3.json", "f4.json", "f5.json", "gone.json"}

\* a file column: empty, or up to MaxFiles paths
FileColumns == {<<"">>} \cup UNION {[1..n -> Paths] : n \in 1..MaxFiles}

\* abstracts: none, one in brackets, one that repeats a body sentence of
\* f1.json, one with a keyword and a boilerplate sentence
AbstractColumns ==
    {<<>>,
     <<"[", "plain text", "]">>,
     <<"body one">>,
     <<"a covid-19 study", "see the COVID-19 resource centre">>}

\* the sections given to Section.filtered: equal texts under different
\* names, and a boilerplate text
SectionPool ==
    {<<Some("A"), "x">>, <<None, "x">>, <<Some("B"), "y">>,
     <<Some("A"), "see the COVID-19 resource centre">>}

SectionLists == UNION {[1..n -> SectionPool] : n \in 0..MaxSections}

CitationLists == {<<>>, <<"cite-a", "cite-b", "cite-a">>}

\* the rows Execute.process is called on: dates on both sides of the
\* cutoff and unknown, texts with and without keywords, with and without
\* companion files
ProcessRows ==
    {Fields("u1", <<"">>, title, abstract, time, pdf, <<"">>) :
       title \in {<<>>, <<"t1">>, <<"on sars-cov-2">>},
       abstract \in AbstractColumns
                      \cup {<<"plain text">>, <<"covid text the tokenizer rejects">>},
       time \in {<<>>, <<"2", "0", "2", "0">>, <<"2", "0", "1", "9">>, <<"0", "0", "0", "0">>,
                 <<"2", "0", "1", "9", "-", "0", "6", "-", "3", "0">>,
                 <<"2", "0", "1", "9", "-", "0", "7", "-", "0", "1">>,
                 <<"n", "/", "a">>},
       pdf \in {<<"">>, <<"f1.json">>, <<"f2.json", "f3.json">>}}

\* the calls of the model: the function and its arguments
Inputs ==
    {[fn |-> "getHash", row |-> Fields(u, sha, title, <<"plain text">>, <<>>, <<"">>, <<"">>)] :
       u \in Uids, sha \in ShaColumns, title \in TitleColumns}
      \cup {[fn |-> "getDate", row |-> Fields("u1", <<"">>, <<"t1">>, <<>>, time, <<"">>, <<"">>)] :
              time \in TimeColumns}
      \cup {[fn |-> "parse", row |-> Fields("u1", <<"">>, title, abstract, <<>>, pdf, pmc)] :
              title \in {<<>>, <<"t1">>}, abstract \in AbstractColumns,
              pdf \in FileColumns, pmc \in {<<"">>, <<"f2.json">>}}
      \cup {[fn |-> "filtered", sections |-> ss, citations |-> cs] :
              ss \in SectionLists, cs \in CitationLists}
      \cup {[fn |-> "process", row |-> row] : row \in ProcessRows}

CallInit ==
    /\ NoRun
    /\ input \in {Some(call) : call \in Inputs}
    /\ output = None
    /\ service = <<>>
    /\ elastic = None
    /\ connection = <<>>
    /\ saved = <<>>

\* the call is made on the input, once
Called(fn) == input # None /\ input[1].fn = fn /\ output = None

CallGetHash ==
    /\ Called("getHash")
    /\ output' = Some(Returned(getHash(input[1].row)))
    /\ UNCHANGED <<run, input, service, elastic, connection, saved>>

CallGetDate ==
    /\ Called("getDate")
    /\ output' = Some(Returned(getDate(input[1].row)))
    /\ UNCHANGED <<run, input, service, elastic, connection, saved>>

CallParse ==
    /\ Called("parse")
    /\ output' = Some(Returned(parse(input[1].row)))
    /\ UNCHANGED <<run, input, service, elastic, connection, saved>>

CallFiltered ==
    /\ Called("filtered")
    /\ output' = Some(Returned(filtered(input[1].sections, input[1].citations)))
    /\ UNCHANGED <<run, input, service, elastic, connection, saved>>

\* the tokens are built before the tag is looked at
ServiceCalls_Always(row) == <<<<"grammar.parse">>>>

\* the calls Execute.process makes on the annotation service for a row, in
\* order: grammar.parse and Study.parse for a tagged row, and grammar.label
\* for each section Study.parse gave no label
ServiceCalls(row) ==
    LET date == getDate(row)
        sections == parse(row).sections
        tag == IF date = None \/ date[1] >= Cutoff THEN getTags(sections) ELSE None
    IN  IF tag # None
        THEN LET parsing == grammar_parse([i \in 1..Len(sections) |-> sections[i][2]])
             IN  IF ~parsing.ok THEN <<<<"grammar.parse">>>>
                 ELSE LET joined == [i \in 1..Len(sections) |->
                                       <<sections[i][1], sections[i][2], parsing.value[i]>>]
                          study == Study_parse(joined)
                      IN  <<<<"grammar.parse">>, <<"Study.parse">>>>
                            \o [k \in 1..Len(SelectSeq([i \in 1..Len(joined) |-> i],
                                                       LAMBDA i : study.labels[i] = None)) |->
                                  <<"grammar.label",
                                    SelectSeq([i \in 1..Len(joined) |-> i],
                                              LAMBDA i : study.labels[i] = None)[k]>>]
        ELSE <<>>

CallProcess ==
    /\ Called("process")
    /\ output' = Some(process(input[1].row))
    /\ service' = ServiceCalls(input[1].row)
    /\ UNCHANGED <<run, input, elastic, connection, saved>>

CallNext ==
    \/ CallGetHash
    \/ CallGetDate
    \/ CallParse
    \/ CallFiltered
    \/ CallProcess

CallSpec == CallInit /\ [][CallNext]_vars

----------------------------------------------------------------------------
(* Properties of Section.parse and Section.filtered *)

\* the call of fn has returned or raised
Done(fn) == input # None /\ input[1].fn = fn /\ output # None

\* the row with the given companion files, and with no title and abstract
WithFiles(row, paths) ==
    [row EXCEPT !.pdf_json_files = IF paths = <<>> THEN <<"">> ELSE paths,
                !.pmc_json_files = <<"">>]

NoText(row) == [row EXCEPT !.title = <<>>, !.abstract = <<>>]

\* the file cannot be opened or read as JSON
Unopenable(path) == Directory(path) = None

\* the file is missing, unreadable or lacks one of its tables
Broken(path) ==
    \/ Unopenable(path)
    \/ Directory(path)[1].body_text = None
    \/ Directory(path)[1].ref_entries = None
    \/ Directory(path)[1].bib_entries = None

IsPrefix(a, b) == Len(a) <= Len(b) /\ SubSeq(b, 1, Len(a)) = a

Remove(seq, i) == SubSeq(seq, 1, i - 1) \o SubSeq(seq, i + 1, Len(seq))

TextsOf(sections) == {sections[i][2] : i \in 1..Len(sections)}

\* C12: a companion file that is missing, unreadable or malformed does not
\* abort the record: parse returns; what the title, the abstract and the
\* files before it gave is kept; the files after it are still processed; and
\* a file that cannot be opened leaves the result as if it were not named.
C12_BrokenFileIsSkipped ==
    Done("parse") =>
      LET row == input[1].row
          P == files(row)
          out == output[1]
      IN  /\ out.ok
          /\ \A i \in 1..Len(P) :
               Broken(P[i]) =>
                 LET before == parse(WithFiles(row, SubSeq(P, 1, i - 1)))
                 IN  /\ IsPrefix(before.sections, out.value.sections)
                     /\ before.citations \subseteq out.value.citations
                     /\ Unopenable(P[i]) => out.value = parse(WithFiles(row, Remove(P, i)))
                     /\ \A j \in (i + 1)..Len(P) :
                          LET alone == parse(WithFiles(NoText(row), <<P[j]>>))
                          IN  /\ TextsOf(alone.sections) \subseteq TextsOf(out.value.sections)
                              /\ alone.citations \subseteq out.value.citations

\* parse has returned for a row with a title whose second file is not
\* there: the sentences of the first and of the third file are sections
C12_Witness ==
    /\ Done("parse")
    /\ files(input[1].row) = <<"f1.json", "gone.json", "f2.json">>
    /\ input[1].row.title = <<"t1">>
    /\ {"t1", "body one", "body two", "table row"} \subseteq TextsOf(output[1].value.sections)
    /\ output[1].value.citations = {"cite-a", "cite-b"}

\* a is b with some of its elements left out
RECURSIVE IsSubsequence(_, _)
IsSubsequence(a, b) ==
    IF a = <<>> THEN TRUE
    ELSE IF b = <<>> THEN FALSE
    ELSE IF Head(a) = Head(b) THEN IsSubsequence(Tail(a), Tail(b))
    ELSE IsSubsequence(a, Tail(b))

\* the text holds one of the boilerplate fragments
IsBoilerplate(text) == Fragments(text) \cap Boilerplate # {}

\* the first place of the text in the sections
FirstPlace(sections, text) ==
    CHOOSE i \in 1..Len(sections) :
      /\ sections[i][2] = text
      /\ \A j \in 1..(i - 1) : sections[j][2] # text

\* C13: the output of Section.filtered is a subsequence of its input in the
\* same order; no two output sections have the same text, and of sections
\* with the same text the first is the one kept; no output text holds a
\* boilerplate fragment; every input section that is neither boilerplate nor
\* a repeat of an earlier text is kept.
C13_FilteredFirstUnique ==
    Done("filtered") =>
      LET in == input[1].sections
          out == output[1].value.sections
      IN  /\ output[1].ok
          /\ IsSubsequence(out, in)
          /\ \A k, l \in 1..Len(out) : k # l => out[k][2] # out[l][2]
          /\ \A k \in 1..Len(out) : out[k] = in[FirstPlace(in, out[k][2])]
          /\ \A k \in 1..Len(out) : ~IsBoilerplate(out[k][2])
          /\ \A i \in 1..Len(in) :
               (/\ ~IsBoilerplate(in[i][2])
                /\ \A j \in 1..(i - 1) : in[j][2] # in[i][2])
                 => \E k \in 1..Len(out) : out[k] = in[i]

\* a text under a name, a boilerplate text, and the first text again under
\* no name: the first section alone is returned
C13_Witness ==
    /\ Done("filtered")
    /\ input[1].sections = <<<<Some("A"), "x">>,
                             <<Some("A"), "see the COVID-19 resource centre">>,
                             <<None, "x">>>>
    /\ output[1].value.sections = <<<<Some("A"), "x">>>>

----------------------------------------------------------------------------
(* Properties of Execute.process, Execute.getDate and Execute.getHash *)

\* Execute.process has returned a candidate for the row
Processing == Done("process") /\ output[1].ok

\* one of the sections Section.parse gives for the row matches a keyword pattern
Matches(row) ==
    LET sections == parse(row).sections
    IN  \E i \in 1..Len(sections) : sections[i][2] \in KeywordTexts

\* C14: a record whose date is known and before 2019-07-01 gets no tag even
\* when its text matches a keyword; a record whose date is unknown or on or
\* after 2019-07-01 gets the tag COVID-19 if and only if one of its sections
\* matches a keyword pattern, and no tag otherwise.
C14_TagByDateAndKeyword ==
    Processing =>
      LET row == input[1].row
          date == getDate(row)
          tag == tags(output[1].value.article)
      IN  /\ (date # None /\ date[1] < 20190701) => tag = None
          /\ (date = None \/ date[1] >= 20190701) =>
               /\ Matches(row) => tag = Some("COVID-19")
               /\ ~Matches(row) => tag = None

\* a row of 2019-06-30 with a keyword in its abstract got no tag
C14_Witness ==
    /\ Processing
    /\ input[1].row.publish_time = <<"2", "0", "1", "9", "-", "0", "6", "-", "3", "0">>
    /\ input[1].row.abstract = <<"a covid-19 study", "see the COVID-19 resource centre">>
    /\ tags(output[1].value.article) = None

\* the string is four digits
IsYear(s) == Len(s) = 4 /\ \A i \in 1..4 : s[i] \in Digits

\* January 1 of the year the four digits write
JanuaryFirst(s) == Number(s, 1, 4) * 10000 + 101

\* the string is empty, or is no year and the parser raises on it
Unparseable(s) == s = <<>> \/ (~IsYear(s) /\ ~dateutil_parse(s).ok)

\* C15 as stated: for every string of exactly four digits, "0000" among
\* them, getDate returns January 1 of that year; for an empty or unparseable
\* string it returns None and never raises.
C15_EveryYear ==
    Done("getDate") =>
      LET s == input[1].row.publish_time
      IN  /\ output[1].ok
          /\ IsYear(s) => output[1].value = Some(JanuaryFirst(s))
          /\ Unparseable(s) => output[1].value = None

\* C15: for every string of four digits that writes a year of 0001 to 9999
\* getDate returns January 1 of that year; for "0000", which no datetime can
\* hold, and for an empty or unparseable string it returns None; it never
\* raises.
C15_YearFromOne ==
    Done("getDate") =>
      LET s == input[1].row.publish_time
      IN  /\ output[1].ok
          /\ (IsYear(s) /\ Number(s, 1, 4) >= 1) => output[1].value = Some(JanuaryFirst(s))
          /\ (IsYear(s) /\ Number(s, 1, 4) = 0) => output[1].value = None
          /\ Unparseable(s) => output[1].value = None

\* getDate has returned January 1, 2019 for "2019"
C15_Witness ==
    /\ Done("getDate")
    /\ input[1].row.publish_time = <<"2", "0", "1", "9">>
    /\ output[1] = Returned(Some(20190101))

\* the hash is that of every row of the model with the same sha and title columns
SameForEqualColumns(row, hash) ==
    \A call \in Inputs :
      (call.fn = "getHash" /\ call.row.sha = row.sha /\ call.row.title = row.title)
        => getHash(call.row) = hash

\* C16 as stated: when the sha column is non-empty getHash returns the
\* first of the delimited hashes; when it is empty, the content hash of the
\* title (that of the empty string for an empty title); equal columns give
\* equal hashes.
C16_FirstOfColumn ==
    Done("getHash") =>
      LET row == input[1].row
          hash == output[1].value
      IN  /\ output[1].ok
          /\ row.sha # <<"">> => hash = row.sha[1]
          /\ row.sha = <<"">> => hash = sha1(row.title)
          /\ (row.sha = <<"">> /\ row.title = <<>>) => hash = "da39a3ee"
          /\ SameForEqualColumns(row, hash)

\* C16: when the first of the delimited parts of the sha column is
\* non-empty getHash returns it; when the column is empty, or its first part
\* is, it returns the content hash of the title (that of the empty string
\* for an empty title); equal columns give equal hashes.
C16_FirstNonEmptyPart ==
    Done("getHash") =>
      LET row == input[1].row
          hash == output[1].value
      IN  /\ output[1].ok
          /\ row.sha[1] # "" => hash = row.sha[1]
          /\ row.sha[1] = "" => hash = sha1(row.title)
          /\ (row.sha[1] = "" /\ row.title = <<>>) => hash = "da39a3ee"
          /\ SameForEqualColumns(row, hash)

\* getHash has returned the first of two hashes
C16_Witness ==
    /\ Done("getHash")
    /\ input[1].row.sha = <<"h1", "h2">>
    /\ output[1] = Returned("h1")

\* the tag classifier gives the row a tag
Tagged(row) ==
    LET date == getDate(row)
    IN  (date = None \/ date[1] >= 20190701) /\ Matches(row)

\* C17: Execute.process calls the annotation service (grammar.parse,
\* Study.parse, grammar.label) only for a row the tag classifier gave a tag;
\* for an untagged row it makes no call, design, size, sample and method are
\* None, and the third field of every section is None.
C17_AnnotatedOnlyIfTagged ==
    Done("process") =>
      LET row == input[1].row
      IN  /\ service # <<>> => Tagged(row)
          /\ ~Tagged(row) =>
               /\ service = <<>>
               /\ output[1].ok
               /\ \A f \in 8..11 : output[1].value.article.metadata[f] = None
               /\ \A i \in 1..Len(output[1].value.article.sections) :
                    output[1].value.article.sections[i][3] = None

\* a row of 2019 whose sections match a keyword was processed with no call
\* of the service
C17_Witness ==
    /\ Done("process")
    /\ input[1].row.publish_time = <<"2", "0", "1", "9">>
    /\ Matches(input[1].row)
    /\ Len(output[1].value.article.sections) >= 2
    /\ service = <<>>

----------------------------------------------------------------------------
(* Elastic: the documents it builds *)

\* Articles schema
ARTICLE == <<"id", "source", "published", "publication", "authors", "title", "tags",
             "design", "size", "sample", "method", "reference", "entry">>

\* Sections schema
SECTION == <<"name", "text", "labels">>

\* Citations schema
CITATION == <<"title", "mentions">>

\* dict(zip(keys, values)): zip stops at the shorter of the two
Zip(keys, values) ==
    LET n == IF Len(keys) < Len(values) THEN Len(keys) ELSE Len(values)
    IN  [k \in {keys[i] : i \in 1..n} |-> values[CHOOSE i \in 1..n : keys[i] = k]]

\* the bulk action Elastic.save builds of an article and its sections
ArticleAction(article, sections) ==
    LET doc == Zip(ARTICLE, article)
    IN  ("sections" :> [i \in 1..Len(sections) |-> Zip(SECTION, sections[i])])
          @@ ("_id" :> doc["id"]) @@ ("_index" :> "articles") @@ doc

\* the bulk action Elastic.complete builds of an item of the counter
CitationAction(citation) == ("_index" :> "citations") @@ Zip(CITATION, citation)

\* C18: for every row, tagged or not, the (name, text) pairs of the article
\* Execute.process builds are those Section.parse returns, one by one and in
\* the same order: annotation adds a third field to each section and
\* reorders, drops and repeats none; the document Elastic.save builds keeps
\* that order.
C18_SectionOrderKept ==
    Processing =>
      LET parsed == parse(input[1].row).sections
          article == output[1].value.article
          doc == ArticleAction(article.metadata, article.sections)
      IN  /\ Len(article.sections) = Len(parsed)
          /\ \A i \in 1..Len(parsed) :
               /\ Len(article.sections[i]) = 3
               /\ <<article.sections[i][1], article.sections[i][2]>> = parsed[i]
          /\ Len(doc.sections) = Len(parsed)
          /\ \A i \in 1..Len(parsed) :
               <<doc.sections[i].name, doc.sections[i].text>> = parsed[i]

\* a tagged row with a title, an abstract and two companion files was
\* processed: its article has the four sections of Section.parse, annotated
C18_Witness ==
    /\ Processing
    /\ tags(output[1].value.article) = Some("COVID-19")
    /\ Len(output[1].value.article.sections) >= 4
    /\ \A i \in 1..Len(output[1].value.article.sections) :
         output[1].value.article.sections[i][3] # None
    /\ \E i, j \in 1..Len(output[1].value.article.sections) :
         output[1].value.article.sections[i][2] # output[1].value.article.sections[j][2]

----------------------------------------------------------------------------
(* A companion file that is corrupt part-way *)

\* the file is opened and read, and one of its tables is missing
CorruptPartWay(path) == ~Unopenable(path) /\ Broken(path)

\* C19: a companion file that turns out to be corrupt part-way (its body is
\* read, its reference or bibliography table is missing) contributes no
\* section and no citation title: the result is that of the row without
\* that file.
C19_CorruptFileContributesNothing ==
    Done("parse") =>
      LET row == input[1].row
          P == files(row)
      IN  \A i \in 1..Len(P) :
            (CorruptPartWay(P[i]) /\ \A j \in 1..Len(P) : j # i => ~CorruptPartWay(P[j]))
              => output[1].value = parse(WithFiles(row, Remove(P, i)))

----------------------------------------------------------------------------
(* Elastic: save, complete, close *)

\* articles per bulk load of Elastic.save (1000 in the code, scaled down)
BulkArticles == 2

\* citations per bulk load of Elastic.complete (5000 in the code, scaled down)
BulkCitations == 2

\* calls of save on the object at most
MaxSaves == 5

\* items of the citation counter at most
MaxCitations == 5

\* the articles given to save: the metadata tuple and the sections
Documents ==
    {[article |-> <<u, "PMC", 20200101, "journal", "authors", "t1", "COVID-19", 1,
                    "size", "sample", "method", "https://doi.org/10.1/x", "2020-03-27">>,
      sections |-> IF u = "u1" THEN <<<<"TITLE", "t1", "NONE">>, <<"INTRO", "body one", "NONE">>>>
                   ELSE <<>>] : u \in Uids}

\* the items of a counter, in the order of citations.items()
Items(n) == [i \in 1..n |-> <<<<"cite", i>>, 1 + (i % 2)>>]

\* Elastic(url): the connection is made and the two indices are created
ElasticInit ==
    /\ NoRun
    /\ input \in {Some([fn |-> "complete", citations |-> Items(n)]) : n \in 0..MaxCitations}
    /\ output = None
    /\ service = <<>>
    /\ elastic = [rows |-> 0, buffer |-> <<>>]
    /\ connection = <<<<"create", "articles">>, <<"create", "citations">>>>
    /\ saved = <<>>

\* the indices have been refreshed: complete was called
Completed == \E i \in 1..Len(connection) : connection[i][1] = "refresh"

Closed == \E i \in 1..Len(connection) : connection[i][1] = "close"

\* the buffer is loaded at every BulkArticles-th save and is not emptied
save_KeepBuffer(uid_, article, sections, tags_, design) ==
    LET buffer == Append(elastic.buffer, ArticleAction(article, sections))
        n == elastic.rows + 1
    IN  /\ ~Completed
        /\ n <= MaxSaves
        /\ saved' = Append(saved, ArticleAction(article, sections))
        /\ elastic' = [rows |-> n, buffer |-> buffer]
        /\ connection' = IF n % BulkArticles = 0
                         THEN Append(connection, <<"bulk", buffer>>)
                         ELSE connection
        /\ UNCHANGED <<run, input, output, service>>

\* Elastic.save: the article is buffered and counted; every BulkArticles-th
\* save loads the buffer and empties it
save(uid_, article, sections, tags_, design) ==
    LET buffer == Append(elastic.buffer, ArticleAction(article, sections))
        n == elastic.rows + 1
    IN  /\ ~Completed
        /\ n <= MaxSaves
        /\ saved' = Append(saved, ArticleAction(article, sections))
        /\ IF n % BulkArticles = 0
           THEN /\ connection' = Append(connection, <<"bulk", buffer>>)
                /\ elastic' = [rows |-> n, buffer |-> <<>>]
           ELSE /\ elastic' = [rows |-> n, buffer |-> buffer]
                /\ UNCHANGED connection
        /\ UNCHANGED <<run, input, output, service>>

\* the loop of Elastic.complete over citations.items(): the bulk loads made
\* and the buffer left
RECURSIVE LoadCitations(_, _, _)
LoadCitations(items, buffer, loads) ==
    IF items = <<>> THEN [buffer |-> buffer, loads |-> loads]
    ELSE LET filled == Append(buffer, CitationAction(Head(items)))
         IN  IF Len(filled) >= BulkCitations
             THEN LoadCitations(Tail(items), <<>>, Append(loads, <<"bulk", filled>>))
             ELSE LoadCitations(Tail(items), filled, loads)

\* Elastic.complete: the buffered articles are loaded, then the citations in
\* batches, the last batch staying in the buffer; the indices are refreshed
complete(counter) ==
    LET articles == IF elastic.buffer # <<>> THEN <<<<"bulk", elastic.buffer>>>> ELSE <<>>
        loop_ == LoadCitations(counter, <<>>, <<>>)
        final == IF loop_.buffer # <<>> THEN <<<<"bulk", loop_.buffer>>>> ELSE <<>>
    IN  /\ ~Completed
        /\ connection' = connection \o articles \o loop_.loads \o final
                           \o <<<<"refresh", "articles">>, <<"refresh", "citations">>>>
        /\ elastic' = [elastic EXCEPT !.buffer = loop_.buffer]
        /\ UNCHANGED <<run, input, output, service, saved>>

\* Elastic.close
close ==
    /\ Completed
    /\ ~Closed
    /\ connection' = Append(connection, <<"close">>)
    /\ UNCHANGED <<run, input, output, service, elastic, saved>>

\* the sink as Execute.run drives it: saves, complete once, close once
ElasticNext ==
    \/ \E doc \in Documents :
         save(doc.article[1], doc.article, doc.sections, doc.article[7], doc.article[8])
    \/ complete(input[1].citations)
    \/ close

ElasticSpec == ElasticInit /\ [][ElasticNext]_vars

\* the batches given to helpers.bulk, in order
Loads == SelectSeq(connection, LAMBDA call : call[1] = "bulk")

\* the actions sent to the bulk loader, in order
Sent == Concat([i \in 1..Len(Loads) |-> Loads[i][2]])

\* C20: after any sequence of save calls the buffer holds the articles saved
\* since the last bulk load, its length is rows mod BulkArticles and so
\* below BulkArticles, and rows is the number of save calls; after complete
\* every article passed to save has been sent to the bulk loader once and
\* before any citation, and every citation once, in batches of at most
\* BulkCitations.
C20_BufferedAndSentOnce ==
    /\ elastic.rows = Len(saved)
    /\ ~Completed =>
         /\ Len(elastic.buffer) = elastic.rows % BulkArticles
         /\ Len(elastic.buffer) < BulkArticles
         /\ Len(Sent) <= Len(saved)
         /\ Sent = SubSeq(saved, 1, Len(Sent))
         /\ elastic.buffer = SubSeq(saved, Len(Sent) + 1, Len(saved))
    /\ Completed =>
         LET items == input[1].citations
         IN  /\ Len(Sent) = Len(saved) + Len(items)
             /\ SubSeq(Sent, 1, Len(saved)) = saved
             /\ \A i \in 1..Len(items) : Sent[Len(saved) + i] = CitationAction(items[i])
             /\ \A k \in 1..Len(Loads) :
                  /\ \A i, j \in 1..Len(Loads[k][2]) :
                       Loads[k][2][i]["_index"] = Loads[k][2][j]["_index"]
                  /\ (Loads[k][2][1]["_index"] = "citations")
                       => Len(Loads[k][2]) <= BulkCitations

\* the object was closed after more saves than one bulk load takes, with
\* articles left in the buffer at complete, and more citations than one
\* batch takes
C20_Witness ==
    /\ Closed
    /\ Len(saved) > BulkArticles
    /\ Len(saved) % BulkArticles # 0
    /\ Len(input[1].citations) > BulkCitations
    /\ Len(input[1].citations) % BulkCitations # 0

----------------------------------------------------------------------------
(* The frame of a rejection *)

\* the step consumes a candidate without handing it to db.save
IsReject == consumed' = consumed + 1 /\ accepted' = accepted

\* C21: consuming a rejected candidate leaves ids, hashes, the citation
\* counter and the database untouched; ids and hashes hold the keys of the
\* accepted documents alone, so a later candidate with the uid of a rejected
\* one and a fresh hash, or with its hash and a fresh uid, is still accepted.
C21_RejectionChangesNothing ==
    /\ [][IsReject => UNCHANGED <<ids, hashes, citations, db>>]_vars
    /\ [](pc = "streaming" =>
            /\ ids = {uid(Candidate(n).article) : n \in AcceptedRows}
            /\ hashes = {Candidate(n).sha : n \in AcceptedRows})
    /\ [](\A n \in 1..consumed : \A m \in 1..(n - 1) :
            (/\ m \notin AcceptedRows
             /\ \/ uid(Candidate(m).article) = uid(Candidate(n).article)
                \/ Candidate(m).sha = Candidate(n).sha
             /\ \A k \in Before(n) :
                  /\ uid(Candidate(k).article) # uid(Candidate(n).article)
                  /\ Candidate(k).sha # Candidate(n).sha
             /\ (full \/ Truthy(tags(Candidate(n).article))))
              => n \in AcceptedRows)

\* the second candidate was rejected for the hash of the first, and the
\* third, with the uid of the second and a fresh hash, was saved
C21_Witness ==
    /\ consumed = 3
    /\ accepted = <<1, 3>>
    /\ Candidate(2).sha = Candidate(1).sha
    /\ uid(Candidate(2).article) # uid(Candidate(1).article)
    /\ uid(Candidate(3).article) = uid(Candidate(2).article)
    /\ Candidate(3).sha # Candidate(1).sha
    /\ (full \/ Truthy(tags(Candidate(2).article)))

====
